---- MODULE Spec2Model ----
(***************************************************************************)
(* Model of the compliance dashboard's orchestration layer:                *)
(*   auth_manager.py   - the session / authentication state machine        *)
(*   email_notifier.py - the notification gate (EmailNotifier)             *)
(*   app.py            - main(), the re-run driven page script, and        *)
(*                       analyze_contract()                                *)
(*                                                                         *)
(* st.session_state is the set of variables below.  One action is one      *)
(* script run of main() triggered by one widget event (or by a plain       *)
(* redraw), including the st.rerun() the handler ends with.                *)
(*                                                                         *)
(* Python values: a str is a sequence of one-character strings, so that    *)
(* `"@" in s`, `not s` and concatenation are computed as Python computes   *)
(* them.  A field that can hold None holds <<>> (None) or <<v>>.           *)
(***************************************************************************)
EXTENDS Integers, Sequences, FiniteSets, TLC

VARIABLES
    \* auth_manager.py, st.session_state
    authenticated, temp_session, user_email, user_name, user_role, login_time,
    \* app.py, st.session_state
    analysis_complete, analysis_results, contract_name, email_sent, show_rewrites,
    \* module state fixed at import time
    VALID_USERS,        \* auth_manager.VALID_USERS after the environment merge
    enabled,            \* email_notifier.enabled
    notification_emails,\* email_notifier.notification_emails
    environ,            \* os.environ as EmailNotifier.__init__ read it, and whether
                        \* yagmail.SMTP(...) returned
    \* observation of the last script run (what the collaborators saw)
    lastAction,         \* the widget event that triggered the run
    analyzer_event,     \* what analyze_contract_file did in the run
    tmp_file,           \* the temporary copy analyze_contract made in the run:
                        \* "none" (not made), "deleted" or "left" on disk
    notify_return,      \* return value of send_analysis_notification, if called
    last_send,          \* the yag.send call of the run, if any
    transport_calls,    \* analysis-notification yag.send calls since the last run reset
    gate_calls,         \* send_analysis_notification calls since the last run reset
    form_input,         \* what was typed into the form the run handled, if any
    auth_result,        \* whether that form's handler opened a session
    drawn,              \* the dashboard and summary the run computed, if any
    view                \* page drawn at the end of the run

authVars == <<authenticated, temp_session, user_email, user_name, user_role, login_time>>
runVars  == <<analysis_complete, analysis_results, contract_name, email_sent>>
envVars  == <<VALID_USERS, enabled, notification_emails, environ>>
obsVars  == <<lastAction, analyzer_event, tmp_file, notify_return, last_send, transport_calls,
              gate_calls, form_input, auth_result, drawn, view>>
vars     == <<authVars, runVars, show_rewrites, envVars, obsVars>>

-----------------------------------------------------------------------------
(* Python values *)

None    == <<>>
Some(v) == <<v>>
Absent  == <<>>                 \* key not in st.session_state

\* `x in s` for a one-character x
Contains(s, c) == \E i \in 1..Len(s) : s[i] = c
\* Python truthiness of a str or list
Truthy(s) == Len(s) > 0
\* Python truthiness of an Optional list (None or a list)
TruthyOpt(o) == o # None /\ Len(o[1]) > 0

\* a Python float that is a quotient of two ints, kept exact
Rat(n, d)   == [num |-> n, den |-> d]
RatEq(a, b) == a.num * b.den = b.num * a.den

\* str.replace(c, "") for a one-character c
RemoveAll(s, c) == SelectSeq(s, LAMBDA x : x # c)

\* str.strip()
IsSpace(c) == c \in {" ", "\t", "\n"}
RECURSIVE LStrip(_)
LStrip(s) == IF Len(s) > 0 /\ IsSpace(s[1]) THEN LStrip(Tail(s)) ELSE s
RECURSIVE RStrip(_)
RStrip(s) == IF Len(s) > 0 /\ IsSpace(s[Len(s)]) THEN RStrip(SubSeq(s, 1, Len(s) - 1)) ELSE s
Strip(s)  == RStrip(LStrip(s))

\* float(s), on strings of decimal digits, letters, spaces and "%": the
\* value of a non-empty digit string, None where float raises ValueError
DigitChars == <<"0","1","2","3","4","5","6","7","8","9">>
IsDigit(c) == \E d \in 1..10 : DigitChars[d] = c
DigitOf(c) == (CHOOSE d \in 1..10 : DigitChars[d] = c) - 1
RECURSIVE DigitsValue(_)
DigitsValue(s) ==
    IF Len(s) = 0 THEN 0
    ELSE 10 * DigitsValue(SubSeq(s, 1, Len(s) - 1)) + DigitOf(s[Len(s)])
ParseFloat(s) ==
    IF Len(s) > 0 /\ (\A i \in 1..Len(s) : IsDigit(s[i]))
    THEN Some(DigitsValue(s))
    ELSE None

RECURSIVE SeqSum(_)
SeqSum(s) == IF Len(s) = 0 THEN 0 ELSE s[1] + SeqSum(Tail(s))

-----------------------------------------------------------------------------
(* Bounds of the model *)

MaxClauses == 2                 \* longest record list the analyzer returns
MaxTime    == 1                 \* distinct values of datetime.now()
MaxCalls   == 3                 \* cap on the per-run call counters
MaxLevelList   == 5             \* longest list aggregated over all risk levels
MaxPercentList == 3             \* longest list aggregated over all risk_percent strings

-----------------------------------------------------------------------------
(* Strings *)

AdminEmail   == <<"a","d","m","i","n","@","c","o","m","p","a","n","y",".","c","o","m">>
UserEmail    == <<"u","s","e","r","@","c","o","m","p","a","n","y",".","c","o","m">>
EnvEmail     == <<"e","n","v","@","c","o","m","p","a","n","y",".","c","o","m">>
AdminEmailUC == <<"A","d","m","i","n","@","c","o","m","p","a","n","y",".","c","o","m">>
GuestEmail   == <<"g","u","e","s","t","@","e","x","a","m","p","l","e",".","c","o","m">>
NoAtEmail    == <<"g","u","e","s","t">>
AtOnly       == <<"@">>
EmptyStr     == <<>>
AdminName    == <<"A","d","m","i","n"," ","U","s","e","r">>
RegularName  == <<"R","e","g","u","l","a","r"," ","U","s","e","r">>
EnvName      == <<"E","n","v","i","r","o","n","m","e","n","t"," ","U","s","e","r">>
GuestPrefix  == <<"G","u","e","s","t"," ","(">>
GuestSuffix  == <<")">>
FileA        == <<"n","d","a",".","p","d","f">>
FileB        == <<"m","s","a",".","d","o","c","x">>
AddrA        == <<"a","@","x">>
AddrB        == <<"b","@","x">>
Pct42        == <<"4","2","%">>
Pct7Spaced   == <<" ","7"," ","%"," ">>
PctAbc       == <<"a","b","c">>
Pct4Pct2     == <<"4","%","2">>

\* inputs typed into the forms
LoginEmails == {AdminEmail, UserEmail, EnvEmail, AdminEmailUC, EmptyStr}
Passwords   == {"admin123", "user123", "env123", ""}
TempEmails  == {GuestEmail, AdminEmail, NoAtEmail, AtOnly, EmptyStr}
FileNames   == {FileA, FileB}
Times       == 1..MaxTime

-----------------------------------------------------------------------------
(* auth_manager.py *)

\* VALID_USERS as written in the source, before the environment merge
BuiltinUsers ==
    (AdminEmail :> [password |-> "admin123", name |-> AdminName, role |-> "Administrator"])
 @@ (UserEmail  :> [password |-> "user123",  name |-> RegularName, role |-> "Analyst"])

\* the AUTH_USER / AUTH_PASSWORD / AUTH_NAME environment: unset, a new entry,
\* or an entry that replaces a built-in one
EnvAuthChoices ==
    { [user |-> None, password |-> None, name |-> EnvName],
      [user |-> Some(EnvEmail), password |-> Some("env123"), name |-> EnvName],
      [user |-> Some(AdminEmail), password |-> Some("env123"), name |-> EnvName],
      [user |-> Some(EnvEmail), password |-> Some(""), name |-> EnvName] }

\* `if ENV_USER and ENV_PASSWORD: VALID_USERS[ENV_USER] = {...}`
MergeEnvUser(env) ==
    IF env.user # None /\ Truthy(env.user[1]) /\ env.password # None /\ env.password[1] # ""
    THEN (env.user[1] :> [password |-> env.password[1], name |-> env.name, role |-> "User"])
         @@ BuiltinUsers
    ELSE BuiltinUsers

is_authenticated == authenticated
is_temp_session  == temp_session

\* as CredentialsMatch, without the password comparison
CredentialsMatch_any_password(email, password) ==
    email \in DOMAIN VALID_USERS

\* the condition under which authenticate_user writes the session
CredentialsMatch(email, password) ==
    /\ email \in DOMAIN VALID_USERS
    /\ VALID_USERS[email].password = password

\* as authenticate_user, with the role read from the entry's name
authenticate_user_role_from_name(email, password, now) ==
    IF CredentialsMatch(email, password)
    THEN /\ authenticated' = TRUE
         /\ temp_session' = FALSE
         /\ user_email' = Some(email)
         /\ user_name' = Some(VALID_USERS[email].name)
         /\ user_role' = Some(VALID_USERS[email].name)
         /\ login_time' = Some(now)
    ELSE UNCHANGED authVars

authenticate_user(email, password, now) ==
    IF CredentialsMatch(email, password)
    THEN /\ authenticated' = TRUE
         /\ temp_session' = FALSE
         /\ user_email' = Some(email)
         /\ user_name' = Some(VALID_USERS[email].name)
         /\ user_role' = Some(VALID_USERS[email].role)
         /\ login_time' = Some(now)
    ELSE UNCHANGED authVars

\* as create_temp_session, with the bare email as user_name
create_temp_session_plain_name(email, now) ==
    /\ authenticated' = TRUE
    /\ temp_session' = TRUE
    /\ user_email' = Some(email)
    /\ user_name' = Some(email)
    /\ user_role' = Some("Guest")
    /\ login_time' = Some(now)

create_temp_session(email, now) ==
    /\ authenticated' = TRUE
    /\ temp_session' = TRUE
    /\ user_email' = Some(email)
    /\ user_name' = Some(GuestPrefix \o email \o GuestSuffix)
    /\ user_role' = Some("Guest")
    /\ login_time' = Some(now)

\* as logout_user, without the assignment to user_email
logout_user_keeps_email ==
    /\ authenticated' = FALSE
    /\ temp_session' = FALSE
    /\ user_name' = None
    /\ user_role' = None
    /\ login_time' = None
    /\ UNCHANGED user_email

logout_user ==
    /\ authenticated' = FALSE
    /\ temp_session' = FALSE
    /\ user_email' = None
    /\ user_name' = None
    /\ user_role' = None
    /\ login_time' = None

\* the session kind of the specification
Kind ==
    IF ~authenticated THEN "Unauthenticated"
    ELSE IF temp_session THEN "Temporary" ELSE "Full"

-----------------------------------------------------------------------------
(* Clause records and the external collaborators *)

RiskLevels    == {"High", "Medium", "Low"}
ClauseRecords == [risk_level : RiskLevels]

RECURSIVE ListsOfLen(_)
ListsOfLen(n) ==
    IF n = 0 THEN {<<>>}
    ELSE {Append(l, r) : l \in ListsOfLen(n - 1), r \in ClauseRecords}

\* the non-empty record lists analyze_contract_file may return
RecordLists == UNION {ListsOfLen(n) : n \in 1..MaxClauses}

\* analyze_contract_file(path): returns a list (possibly empty), returns None, or raises
NotCalled == [kind |-> "not_called", value |-> None]
AnalyzerOutcomes ==
    {[kind |-> "returned", value |-> Some(r)] : r \in RecordLists \cup {<<>>}}
    \cup {[kind |-> "returned", value |-> None], [kind |-> "raised", value |-> None]}

\* yag.send(...): returns (TRUE) or raises (FALSE)
TransportOutcomes == BOOLEAN

CountLevel(results, level) ==
    Cardinality({i \in 1..Len(results) : results[i].risk_level = level})

-----------------------------------------------------------------------------
(* email_notifier.py *)

\* str.split(c) for a one-character c: "".split(",") is [""]
RECURSIVE Split(_, _)
Split(s, c) ==
    IF ~Contains(s, c) THEN <<s>>
    ELSE LET i == CHOOSE k \in 1..Len(s) : s[k] = c /\ \A j \in 1..(k - 1) : s[j] # c
         IN  <<SubSeq(s, 1, i - 1)>> \o Split(SubSeq(s, i + 1, Len(s)), c)

DefaultRecipients ==
    << <<"a","d","m","i","n","@","c","o","m","p","a","n","y",".","c","o","m">>,
       <<"c","o","m","p","l","i","a","n","c","e","@","c","o","m","p","a","n","y",".","c","o","m">>,
       <<"l","e","g","a","l","@","c","o","m","p","a","n","y",".","c","o","m">> >>

\* as get_notification_emails, falling back whenever no address is left
get_notification_emails_fallback_when_empty(notification_emails_env) ==
    LET emails_str == IF notification_emails_env = None THEN EmptyStr
                      ELSE notification_emails_env[1]
        parts      == Split(emails_str, ",")
        kept       == SelectSeq([i \in 1..Len(parts) |-> Strip(parts[i])], Truthy)
    IN  IF Truthy(kept) THEN kept ELSE DefaultRecipients

\* _get_notification_emails() given os.environ's NOTIFICATION_EMAILS (None when unset)
get_notification_emails(notification_emails_env) ==
    LET emails_str == IF notification_emails_env = None THEN EmptyStr
                      ELSE notification_emails_env[1]
        parts      == Split(emails_str, ",")
    IN  IF Truthy(emails_str)
        THEN SelectSeq([i \in 1..Len(parts) |-> Strip(parts[i])], Truthy)
        ELSE DefaultRecipients

\* os.getenv(name) is None or a str; `not value`
EnvMissing(value) == value = None \/ value[1] = ""

\* as EnabledAfterInit, without the except clause around yagmail.SMTP(...)
EnabledAfterInit_whatever_smtp(env) ==
    ~(EnvMissing(env.EMAIL_USER) \/ EnvMissing(env.EMAIL_PASSWORD))

\* EmailNotifier.__init__: self.enabled
EnabledAfterInit(env) ==
    IF EnvMissing(env.EMAIL_USER) \/ EnvMissing(env.EMAIL_PASSWORD) THEN FALSE
    ELSE env.smtp_init_ok               \* the except clause sets it False

\* the environments of the notifier: each credential unset, empty or set,
\* the recipient override unset, empty, blank, commas only, or a list
NotifierEnvs ==
    [EMAIL_USER          : {None, Some(""), Some("bot@company.com")},
     EMAIL_PASSWORD      : {None, Some(""), Some("app-password")},
     NOTIFICATION_EMAILS : {None, Some(EmptyStr), Some(<<" ">>), Some(<<",">>),
                            Some(<<" ",","," ",","," ">>), Some(AddrA),
                            Some(AddrA \o <<","," ">> \o AddrB \o <<",">>)},
     smtp_init_ok        : BOOLEAN]

\* the two environments of the page script: credentials set and
\* yagmail.SMTP(...) returning, or credentials unset; no recipient override
DeployedEnvs ==
    {[EMAIL_USER |-> Some("bot@company.com"), EMAIL_PASSWORD |-> Some("app-password"),
      NOTIFICATION_EMAILS |-> None, smtp_init_ok |-> TRUE],
     [EMAIL_USER |-> None, EMAIL_PASSWORD |-> None,
      NOTIFICATION_EMAILS |-> None, smtp_init_ok |-> TRUE]}

\* email_notifier = EmailNotifier() at import time, in one of the environments envs
EmailNotifier_init(envs) ==
    /\ environ \in envs
    /\ enabled = EnabledAfterInit(environ)
    /\ notification_emails = get_notification_emails(environ.NOTIFICATION_EMAILS)

NoSend == [kind |-> "none", to |-> <<>>, subject |-> "", status |-> "", ok |-> FALSE]

\* as check_user_session, without the temp_session test
check_user_session_ignores_temp ==
    IF ~authenticated THEN FALSE ELSE TRUE

check_user_session ==
    IF ~authenticated \/ temp_session THEN FALSE ELSE TRUE

\* as generate_analysis_summary, with the subject's test for Medium
\* (`medium_risk > 0`) deciding the banner
generate_analysis_summary_medium_any(results) ==
    IF ~Truthy(results) THEN None
    ELSE IF ~check_user_session THEN None
    ELSE LET total_clauses == Len(results)
             high_risk     == CountLevel(results, "High")
             medium_risk   == CountLevel(results, "Medium")
             low_risk      == CountLevel(results, "Low")
         IN  Some([total_clauses   |-> total_clauses,
                   high_risk       |-> high_risk,
                   medium_risk     |-> medium_risk,
                   low_risk        |-> low_risk,
                   compliance_rate |-> IF total_clauses > 0
                                       THEN Rat(low_risk * 100, total_clauses)
                                       ELSE Rat(0, 1),
                   status_text     |-> IF high_risk > 0 THEN "HIGH RISK"
                                       ELSE IF medium_risk > 0 THEN "MODERATE"
                                       ELSE "LOW RISK"])

\* the statistics and the status banner of the generated summary; None when
\* no summary is generated
generate_analysis_summary(results) ==
    IF ~Truthy(results) THEN None
    ELSE IF ~check_user_session THEN None
    ELSE LET total_clauses == Len(results)
             high_risk     == CountLevel(results, "High")
             medium_risk   == CountLevel(results, "Medium")
             low_risk      == CountLevel(results, "Low")
         IN  Some([total_clauses   |-> total_clauses,
                   high_risk       |-> high_risk,
                   medium_risk     |-> medium_risk,
                   low_risk        |-> low_risk,
                   compliance_rate |-> IF total_clauses > 0
                                       THEN Rat(low_risk * 100, total_clauses)
                                       ELSE Rat(0, 1),
                   status_text     |-> IF high_risk > 0 THEN "HIGH RISK"
                                       ELSE IF 2 * medium_risk > total_clauses THEN "MODERATE"
                                       ELSE "LOW RISK"])

\* _get_user_info(): the two session keys it reads (both are always present
\* after initialize_auth_session)
get_user_info == [user_name |-> user_name, user_email |-> user_email]

\* as analysis_summary_html, with the "sent" state of the run written into the page
analysis_summary_html_reads_flag(results, contract_name_arg, today) ==
    LET stats == generate_analysis_summary(results)
    IN  IF stats = None THEN None
        ELSE Some([status_text     |-> stats[1].status_text,
                   contract        |-> contract_name_arg,
                   by              |-> get_user_info.user_name,
                   date            |-> today,
                   footer_date     |-> today,
                   total_clauses   |-> stats[1].total_clauses,
                   high_risk       |-> stats[1].high_risk,
                   medium_risk     |-> stats[1].medium_risk,
                   low_risk        |-> stats[1].low_risk,
                   compliance_rate |-> IF email_sent THEN Rat(0, 1)
                                       ELSE stats[1].compliance_rate])

\* generate_analysis_summary(analysis_results, contract_name): the values the
\* returned html interpolates, with the day datetime.now() falls on as an
\* input; None when no html is returned
analysis_summary_html(results, contract_name_arg, today) ==
    LET stats == generate_analysis_summary(results)
    IN  IF stats = None THEN None
        ELSE Some([status_text     |-> stats[1].status_text,
                   contract        |-> contract_name_arg,
                   by              |-> get_user_info.user_name,
                   date            |-> today,
                   footer_date     |-> today,
                   total_clauses   |-> stats[1].total_clauses,
                   high_risk       |-> stats[1].high_risk,
                   medium_risk     |-> stats[1].medium_risk,
                   low_risk        |-> stats[1].low_risk,
                   compliance_rate |-> stats[1].compliance_rate])

\* as NotificationSubject, with the banner's majority test for Medium
NotificationSubject_majority(results) ==
    LET high_risk   == CountLevel(results, "High")
        medium_risk == CountLevel(results, "Medium")
    IN  IF high_risk > 0 THEN "HIGH RISK"
        ELSE IF 2 * medium_risk > Len(results) THEN "Review"
        ELSE "Complete"

NotificationSubject(results) ==
    LET high_risk   == CountLevel(results, "High")
        medium_risk == CountLevel(results, "Medium")
    IN  IF high_risk > 0 THEN "HIGH RISK"
        ELSE IF medium_risk > 0 THEN "Review"
        ELSE "Complete"

\* as send_analysis_notification, without the test of self.enabled
send_analysis_notification_ignores_enabled(results, transport_ok) ==
    IF ~check_user_session \/ generate_analysis_summary(results) = None
    THEN [ret |-> FALSE, send |-> NoSend]
    ELSE [ret  |-> transport_ok,
          send |-> [kind |-> "notification", to |-> notification_emails,
                    subject |-> NotificationSubject(results),
                    status |-> generate_analysis_summary(results)[1].status_text,
                    ok |-> transport_ok]]

\* as send_analysis_notification, with a test of the email_sent flag in front
send_analysis_notification_checks_flag(results, transport_ok) ==
    IF ~enabled \/ ~check_user_session \/ email_sent \/ generate_analysis_summary(results) = None
    THEN [ret |-> FALSE, send |-> NoSend]
    ELSE [ret  |-> transport_ok,
          send |-> [kind |-> "notification", to |-> notification_emails,
                    subject |-> NotificationSubject(results),
                    status |-> generate_analysis_summary(results)[1].status_text,
                    ok |-> transport_ok]]

\* send_analysis_notification(results, contract_name) with the transport's outcome
\* as an input: its return value and the yag.send call it made, if any
send_analysis_notification(results, transport_ok) ==
    IF ~enabled THEN [ret |-> FALSE, send |-> NoSend]
    ELSE IF ~check_user_session THEN [ret |-> FALSE, send |-> NoSend]
    ELSE LET summary_html == generate_analysis_summary(results)
         IN  IF summary_html = None THEN [ret |-> FALSE, send |-> NoSend]
             ELSE [ret  |-> transport_ok,      \* the except clause returns False
                   send |-> [kind |-> "notification", to |-> notification_emails,
                             subject |-> NotificationSubject(results),
                             status |-> summary_html[1].status_text,
                             ok |-> transport_ok]]

\* as send_test_email, with a test of the email_sent flag in front
send_test_email_checks_flag(transport_ok) ==
    IF ~enabled \/ ~check_user_session \/ email_sent
    THEN [ret |-> FALSE, send |-> NoSend]
    ELSE [ret  |-> transport_ok,
          send |-> [kind |-> "test", to |-> notification_emails, subject |-> "Test Email", status |-> "",
                    ok |-> transport_ok]]

\* send_test_email() with the transport's outcome as an input
send_test_email(transport_ok) ==
    IF ~enabled THEN [ret |-> FALSE, send |-> NoSend]
    ELSE IF ~check_user_session THEN [ret |-> FALSE, send |-> NoSend]
    ELSE [ret  |-> transport_ok,
          send |-> [kind |-> "test", to |-> notification_emails, subject |-> "Test Email", status |-> "",
                    ok |-> transport_ok]]

is_enabled == enabled

-----------------------------------------------------------------------------
(* app.py *)

\* as ShowsLoginForm, ShowsUploadSection: the section drawn on every run
ShowsLoginForm_always     == TRUE
ShowsLoginForm_never      == FALSE
ShowsUploadSection_always == TRUE

\* main(): which parts of the page a script run draws
ShowsLoginForm     == ~is_authenticated                     \* `if not is_authenticated()`
ShowsUploadSection == ~analysis_complete                    \* `if not ...analysis_complete`
ShowsResults       == analysis_complete /\ TruthyOpt(analysis_results)
ShowsTestButton    == is_enabled                            \* show_email_settings()

\* as initialize_session_state, assigning the defaults without the `not in` tests
initialize_session_state_unconditional ==
    [analysis_complete |-> FALSE, analysis_results |-> None,
     contract_name |-> EmptyStr, email_sent |-> FALSE]

\* initialize_session_state() at the start of a script run: every key is in
\* st.session_state after the first run, so no `if key not in` branch is taken
initialize_session_state ==
    [analysis_complete |-> analysis_complete, analysis_results |-> analysis_results,
     contract_name |-> contract_name, email_sent |-> email_sent]

\* a script run whose handler assigns none of the run's keys
RunKept ==
    LET s == initialize_session_state
    IN  /\ analysis_complete' = s.analysis_complete
        /\ analysis_results' = s.analysis_results
        /\ contract_name' = s.contract_name
        /\ email_sent' = s.email_sent

\* as analyze_contract, with a failed notification ending in the outer except
analyze_contract_email_fatal(outcome, transport_ok) ==
    IF outcome.kind = "raised"
    THEN [ret |-> None, gate |-> None]
    ELSE IF TruthyOpt(outcome.value)
    THEN LET sent == send_analysis_notification(outcome.value[1], transport_ok)
         IN  [ret  |-> IF sent.ret THEN outcome.value ELSE None,
              gate |-> Some(sent)]
    ELSE [ret |-> None, gate |-> None]

\* analyze_contract(uploaded_file), with the collaborators' outcomes as inputs:
\* its return value (None included) and what the gate did, if it was called
analyze_contract(outcome, transport_ok) ==
    IF outcome.kind = "raised"
    THEN [ret |-> None, gate |-> None]                      \* outer except
    ELSE IF TruthyOpt(outcome.value)
    THEN [ret  |-> outcome.value,
          gate |-> Some(send_analysis_notification(outcome.value[1], transport_ok))]
    ELSE [ret |-> None, gate |-> None]                      \* "Failed to analyze contract"

\* analyze_contract(): the temporary file it wrote (NamedTemporaryFile with
\* delete=False) at the end of the call: os.unlink follows the analyzer's
\* return and is skipped when the analyzer raises
TmpFileAfter(outcome) ==
    IF outcome.kind = "raised" THEN "left" ELSE "deleted"

\* as EmailSentAfter, with the flag set after every attempt
EmailSentAfter_always(email_success) == TRUE

\* analyze_contract(): email_sent after the notification block, given the
\* gate's return value
EmailSentAfter(email_success) ==
    IF email_success THEN TRUE ELSE email_sent

\* as CompleteAfterSubmit, with the assignment outside `if results:`
CompleteAfterSubmit_always(results) == TRUE

\* main(): analysis_complete after `results = analyze_contract(uploaded_file)`
CompleteAfterSubmit(results) ==
    IF TruthyOpt(results) THEN TRUE ELSE analysis_complete

\* main(): analysis_results after `results = analyze_contract(uploaded_file)`
ResultsAfterSubmit(results) ==
    IF TruthyOpt(results) THEN results ELSE analysis_results

\* pd.DataFrame(results)[column]: the column exists when some record has the key
HasColumn(results, column) ==
    \E i \in 1..Len(results) : column \in DOMAIN results[i]

\* create_dashboard(): the body of the `for r in results` loop; None where the
\* bare except skips the record
ParsePercent(r) ==
    IF "risk_percent" \notin DOMAIN r THEN None
    ELSE ParseFloat(Strip(RemoveAll(r.risk_percent, "%")))

\* create_dashboard(): risk_percentages after the loop
RECURSIVE RiskPercentages(_)
RiskPercentages(results) ==
    IF Len(results) = 0 THEN <<>>
    ELSE LET first == ParsePercent(results[1])
         IN  (IF first = None THEN <<>> ELSE first) \o RiskPercentages(Tail(results))

\* create_dashboard(results): the values it hands to the charts and st.metric,
\* or the KeyError of df['risk_level'] on a frame without that column
create_dashboard(results) ==
    IF ~HasColumn(results, "risk_level") THEN [raised |-> TRUE]
    ELSE LET total_clauses    == Len(results)
             compliant        == CountLevel(results, "Low")
             risk_percentages == RiskPercentages(results)
         IN  [raised               |-> FALSE,
              risk_counts          |-> [l \in {results[i].risk_level : i \in 1..Len(results)}
                                           |-> CountLevel(results, l)],
              total_clauses        |-> total_clauses,
              compliant            |-> compliant,
              non_compliant        |-> total_clauses - compliant,
              compliant_percentage |-> IF total_clauses > 0
                                       THEN Rat(compliant * 100, total_clauses)
                                       ELSE Rat(0, 1),
              high_risk_count      |-> CountLevel(results, "High"),
              avg_risk             |-> IF Len(risk_percentages) > 0
                                       THEN Rat(SeqSum(risk_percentages), Len(risk_percentages))
                                       ELSE Rat(0, 1)]

\* as Recommendation, with `>=` for `>`
Recommendation_at_least_half(results) ==
    IF CountLevel(results, "High") > 0 THEN "Reject"
    ELSE IF 2 * CountLevel(results, "Medium") >= Len(results) THEN "ReviewRecommended"
    ELSE "Acceptable"

\* create_summary_insights(): the message under "Recommendation"
\* (`len(medium_risk_items) > total_count * 0.5`)
Recommendation(results) ==
    IF CountLevel(results, "High") > 0 THEN "Reject"
    ELSE IF 2 * CountLevel(results, "Medium") > Len(results) THEN "ReviewRecommended"
    ELSE "Acceptable"

\* create_summary_insights(results): the sent indicator and the recommendation
create_summary_insights(results, sent) ==
    [email_sent_indicator |-> sent, recommendation |-> Recommendation(results)]

\* what the page script draws after the handler, and the session key it
\* creates while drawing (create_summary_insights sets show_rewrites)
Redraw(clicked_show_rewrites) ==
    /\ view' = IF ~authenticated' THEN "login"
               ELSE IF analysis_complete' /\ TruthyOpt(analysis_results') THEN "results"
               ELSE IF ~analysis_complete' THEN "upload"
               ELSE "blank"
    /\ drawn' = IF view' = "results"
                THEN Some([dashboard |-> create_dashboard(analysis_results'[1]),
                           summary   |-> create_summary_insights(analysis_results'[1],
                                                                 email_sent')])
                ELSE None
    /\ show_rewrites' =
          IF view' # "results" THEN show_rewrites
          ELSE IF clicked_show_rewrites THEN Some(TRUE)
          ELSE IF show_rewrites = Absent THEN Some(FALSE)
          ELSE show_rewrites

\* a script run in which neither collaborator is called
NoCollaborators ==
    /\ analyzer_event' = NotCalled
    /\ tmp_file' = "none"
    /\ notify_return' = None
    /\ last_send' = NoSend
    /\ UNCHANGED <<transport_calls, gate_calls>>

NoForm ==
    /\ form_input' = None
    /\ auth_result' = None

\* show_login_form(), "Login" form submitted
Login(email, password, now) ==
    /\ ShowsLoginForm
    /\ lastAction' = "login"
    /\ form_input' = Some([email |-> email, password |-> password])
    /\ IF ~Truthy(email) \/ password = ""
       THEN /\ UNCHANGED authVars                           \* "Please enter email and password"
            /\ auth_result' = Some(FALSE)
       ELSE /\ authenticate_user(email, password, now)
            /\ auth_result' = Some(CredentialsMatch(email, password))
    /\ RunKept
    /\ UNCHANGED envVars
    /\ NoCollaborators
    /\ Redraw(FALSE)

\* show_login_form(), "Start Session" form submitted
StartTempSession(temp_email, now) ==
    /\ ShowsLoginForm
    /\ lastAction' = "temp_session"
    /\ form_input' = Some([email |-> temp_email, password |-> ""])
    /\ IF ~Truthy(temp_email) \/ ~Contains(temp_email, "@")
       THEN /\ UNCHANGED authVars                           \* "Please enter valid email"
            /\ auth_result' = Some(FALSE)
       ELSE /\ create_temp_session(temp_email, now)
            /\ auth_result' = Some(TRUE)
    /\ RunKept
    /\ UNCHANGED envVars
    /\ NoCollaborators
    /\ Redraw(FALSE)

\* as Logout, with the user staying on the authenticated page
Logout_stays_authenticated ==
    /\ ~ShowsLoginForm
    /\ lastAction' = "logout"
    /\ UNCHANGED authVars
    /\ RunKept
    /\ UNCHANGED envVars
    /\ NoCollaborators
    /\ NoForm
    /\ Redraw(FALSE)

\* as Logout, with the run's keys set back to their defaults
Logout_resets_run ==
    /\ ~ShowsLoginForm
    /\ lastAction' = "logout"
    /\ logout_user
    /\ analysis_complete' = FALSE
    /\ analysis_results' = None
    /\ contract_name' = EmptyStr
    /\ email_sent' = FALSE
    /\ UNCHANGED envVars
    /\ NoCollaborators
    /\ NoForm
    /\ Redraw(FALSE)

\* show_user_info(), "Logout" button
Logout ==
    /\ ~ShowsLoginForm
    /\ lastAction' = "logout"
    /\ logout_user
    /\ RunKept
    /\ UNCHANGED envVars
    /\ NoCollaborators
    /\ NoForm
    /\ Redraw(FALSE)

\* show_email_settings(), "Send Test Email" button
TestEmail(transport_ok) ==
    /\ ~ShowsLoginForm
    /\ ShowsTestButton
    /\ lastAction' = "test_email"
    /\ last_send' = send_test_email(transport_ok).send
    /\ analyzer_event' = NotCalled
    /\ tmp_file' = "none"
    /\ notify_return' = None
    /\ RunKept
    /\ UNCHANGED <<authVars, envVars, transport_calls, gate_calls>>
    /\ NoForm
    /\ Redraw(FALSE)

\* main(), a file is put into the uploader
Upload(file_name) ==
    /\ ~ShowsLoginForm
    /\ ShowsUploadSection
    /\ lastAction' = "upload"
    /\ contract_name' = file_name
    /\ LET s == initialize_session_state
       IN  /\ analysis_complete' = s.analysis_complete
           /\ analysis_results' = s.analysis_results
           /\ email_sent' = s.email_sent
    /\ UNCHANGED <<authVars, envVars>>
    /\ NoCollaborators
    /\ NoForm
    /\ Redraw(FALSE)

\* main(), "Submit for Analysis" button with file_name in the uploader:
\* analyze_contract(uploaded_file) and the assignments that follow it
Submit(file_name, outcome, transport_ok) ==
    /\ ~ShowsLoginForm
    /\ ShowsUploadSection
    /\ gate_calls < MaxCalls
    /\ lastAction' = "submit"
    /\ contract_name' = file_name
    /\ analyzer_event' = outcome
    /\ tmp_file' = TmpFileAfter(outcome)
    /\ LET done == analyze_contract(outcome, transport_ok)
       IN  /\ IF done.gate # None
              THEN /\ notify_return' = Some(done.gate[1].ret)
                   /\ last_send' = done.gate[1].send
                   /\ gate_calls' = gate_calls + 1
                   /\ transport_calls' =
                        transport_calls
                        + (IF done.gate[1].send.kind = "notification" THEN 1 ELSE 0)
                   /\ email_sent' = EmailSentAfter(done.gate[1].ret)
              ELSE /\ notify_return' = None
                   /\ last_send' = NoSend
                   /\ email_sent' = initialize_session_state.email_sent
                   /\ UNCHANGED <<gate_calls, transport_calls>>
           /\ analysis_results' = ResultsAfterSubmit(done.ret)
           /\ analysis_complete' = CompleteAfterSubmit(done.ret)
    /\ UNCHANGED <<authVars, envVars>>
    /\ NoForm
    /\ Redraw(FALSE)

\* create_summary_insights(), "Show AI-Generated Modifications" button
ShowRewrites ==
    /\ ~ShowsLoginForm
    /\ ShowsResults
    /\ show_rewrites # Some(TRUE)
    /\ lastAction' = "show_rewrites"
    /\ RunKept
    /\ UNCHANGED <<authVars, envVars>>
    /\ NoCollaborators
    /\ NoForm
    /\ Redraw(TRUE)

\* as AnalyzeAnother, without `st.session_state.email_sent = False`
AnalyzeAnother_keeps_email_sent ==
    /\ ~ShowsLoginForm
    /\ ShowsResults
    /\ lastAction' = "analyze_another"
    /\ analysis_complete' = FALSE
    /\ analysis_results' = None
    /\ contract_name' = EmptyStr
    /\ email_sent' = email_sent
    /\ analyzer_event' = NotCalled
    /\ tmp_file' = "none"
    /\ notify_return' = None
    /\ last_send' = NoSend
    /\ transport_calls' = 0
    /\ gate_calls' = 0
    /\ UNCHANGED <<authVars, envVars>>
    /\ NoForm
    /\ Redraw(FALSE)

\* main(), "Analyze Another Contract" button
AnalyzeAnother ==
    /\ ~ShowsLoginForm
    /\ ShowsResults
    /\ lastAction' = "analyze_another"
    /\ analysis_complete' = FALSE
    /\ analysis_results' = None
    /\ contract_name' = EmptyStr
    /\ email_sent' = FALSE
    /\ analyzer_event' = NotCalled
    /\ tmp_file' = "none"
    /\ notify_return' = None
    /\ last_send' = NoSend
    /\ transport_calls' = 0
    /\ gate_calls' = 0
    /\ UNCHANGED <<authVars, envVars>>
    /\ NoForm
    /\ Redraw(FALSE)

\* a script run with no widget event: page redraw, tab switch
Rerender ==
    /\ lastAction' = "rerender"
    /\ RunKept
    /\ UNCHANGED <<authVars, envVars>>
    /\ NoCollaborators
    /\ NoForm
    /\ Redraw(FALSE)

\* initialize_session_state() on the first script run, after module import
Init ==
    /\ authenticated = FALSE
    /\ temp_session = FALSE
    /\ user_email = None
    /\ user_name = None
    /\ user_role = None
    /\ login_time = None
    /\ analysis_complete = FALSE
    /\ analysis_results = None
    /\ contract_name = EmptyStr
    /\ email_sent = FALSE
    /\ show_rewrites = Absent
    /\ \E env \in EnvAuthChoices : VALID_USERS = MergeEnvUser(env)
    /\ EmailNotifier_init(DeployedEnvs)
    /\ lastAction = "init"
    /\ analyzer_event = NotCalled
    /\ tmp_file = "none"
    /\ notify_return = None
    /\ last_send = NoSend
    /\ transport_calls = 0
    /\ gate_calls = 0
    /\ form_input = None
    /\ auth_result = None
    /\ drawn = None
    /\ view = "login"

Next ==
    \/ \E e \in LoginEmails, p \in Passwords, t \in Times : Login(e, p, t)
    \/ \E e \in TempEmails, t \in Times : StartTempSession(e, t)
    \/ Logout
    \/ \E ok \in TransportOutcomes : TestEmail(ok)
    \/ \E f \in FileNames : Upload(f)
    \/ \E f \in FileNames, o \in AnalyzerOutcomes, ok \in TransportOutcomes : Submit(f, o, ok)
    \/ ShowRewrites
    \/ AnalyzeAnother
    \/ Rerender

Spec == Init /\ [][Next]_vars

-----------------------------------------------------------------------------
(* The notification gate on its own: send_analysis_notification and           *)
(* send_test_email called directly, any number of times, on one run that is  *)
(* never reset.  The session is any session the auth functions can leave,    *)
(* the run is the one analyze_contract holds when it reaches the             *)
(* notification block.                                                       *)

InitGate ==
    /\ \E env \in EnvAuthChoices : VALID_USERS = MergeEnvUser(env)
    /\ EmailNotifier_init(DeployedEnvs)
    /\ \/ /\ authenticated = FALSE                          \* initialize_auth_session
          /\ temp_session = FALSE
          /\ user_email = None
          /\ user_name = None
          /\ user_role = None
          /\ login_time = None
       \/ \E e \in TempEmails, t \in Times :                \* create_temp_session
          /\ Truthy(e) /\ Contains(e, "@")
          /\ authenticated = TRUE
          /\ temp_session = TRUE
          /\ user_email = Some(e)
          /\ user_name = Some(GuestPrefix \o e \o GuestSuffix)
          /\ user_role = Some("Guest")
          /\ login_time = Some(t)
       \/ \E e \in DOMAIN VALID_USERS, t \in Times :        \* authenticate_user
          /\ authenticated = TRUE
          /\ temp_session = FALSE
          /\ user_email = Some(e)
          /\ user_name = Some(VALID_USERS[e].name)
          /\ user_role = Some(VALID_USERS[e].role)
          /\ login_time = Some(t)
    /\ analysis_complete = FALSE
    /\ analysis_results = None
    /\ contract_name \in FileNames
    /\ email_sent = FALSE
    /\ show_rewrites = Absent
    /\ \E r \in RecordLists : analyzer_event = [kind |-> "returned", value |-> Some(r)]
    /\ tmp_file = "deleted"                  \* os.unlink precedes the notification block
    /\ lastAction = "init"
    /\ notify_return = None
    /\ last_send = NoSend
    /\ transport_calls = 0
    /\ gate_calls = 0
    /\ form_input = None
    /\ auth_result = None
    /\ drawn = None
    /\ view = IF authenticated THEN "upload" ELSE "login"

\* the notification block of analyze_contract: the gate is called with the
\* run's records and email_sent is set from its return value
GateNotify(transport_ok) ==
    /\ gate_calls < MaxCalls
    /\ lastAction' = "gate_notify"
    /\ LET sent == send_analysis_notification(analyzer_event.value[1], transport_ok)
       IN  /\ notify_return' = Some(sent.ret)
           /\ last_send' = sent.send
           /\ transport_calls' =
                transport_calls + (IF sent.send.kind = "notification" THEN 1 ELSE 0)
           /\ email_sent' = EmailSentAfter(sent.ret)
    /\ gate_calls' = gate_calls + 1
    /\ UNCHANGED <<authVars, analysis_complete, analysis_results, contract_name,
                   show_rewrites, envVars, analyzer_event, tmp_file, form_input, auth_result,
                   drawn, view>>

\* send_test_email called directly
GateTest(transport_ok) ==
    /\ lastAction' = "gate_test"
    /\ last_send' = send_test_email(transport_ok).send
    /\ notify_return' = None
    /\ UNCHANGED <<authVars, runVars, show_rewrites, envVars, analyzer_event, tmp_file,
                   transport_calls, gate_calls, form_input, auth_result, drawn, view>>

NextGate ==
    \/ \E ok \in TransportOutcomes : GateNotify(ok)
    \/ \E ok \in TransportOutcomes : GateTest(ok)

SpecGate == InitGate /\ [][NextGate]_vars

-----------------------------------------------------------------------------
(* The notifier constructed in every environment, then called directly:    *)
(* EmailNotifier.__init__ followed by send_analysis_notification and        *)
(* send_test_email.                                                         *)

InitNotifier ==
    /\ VALID_USERS = BuiltinUsers
    /\ EmailNotifier_init(NotifierEnvs)
    /\ \/ /\ authenticated = FALSE                          \* initialize_auth_session
          /\ temp_session = FALSE
          /\ user_email = None
          /\ user_name = None
          /\ user_role = None
          /\ login_time = None
       \/ /\ authenticated = TRUE                           \* create_temp_session
          /\ temp_session = TRUE
          /\ user_email = Some(GuestEmail)
          /\ user_name = Some(GuestPrefix \o GuestEmail \o GuestSuffix)
          /\ user_role = Some("Guest")
          /\ login_time = Some(0)
       \/ /\ authenticated = TRUE                           \* authenticate_user
          /\ temp_session = FALSE
          /\ user_email = Some(AdminEmail)
          /\ user_name = Some(VALID_USERS[AdminEmail].name)
          /\ user_role = Some(VALID_USERS[AdminEmail].role)
          /\ login_time = Some(0)
    /\ analysis_complete = FALSE
    /\ analysis_results = None
    /\ contract_name = FileA
    /\ email_sent = FALSE
    /\ show_rewrites = Absent
    /\ \E r \in RecordLists : analyzer_event = [kind |-> "returned", value |-> Some(r)]
    /\ tmp_file = "deleted"                  \* os.unlink precedes the notification block
    /\ lastAction = "init"
    /\ notify_return = None
    /\ last_send = NoSend
    /\ transport_calls = 0
    /\ gate_calls = 0
    /\ form_input = None
    /\ auth_result = None
    /\ drawn = None
    /\ view = IF authenticated THEN "upload" ELSE "login"

SpecNotifier == InitNotifier /\ [][NextGate]_vars

-----------------------------------------------------------------------------
(* The auth functions on their own: authenticate_user, create_temp_session    *)
(* and logout_user called directly, in any order, from the session           *)
(* initialize_auth_session creates.  form_input is the call's arguments and  *)
(* auth_result its return value.                                             *)

InitAuth ==
    /\ authenticated = FALSE
    /\ temp_session = FALSE
    /\ user_email = None
    /\ user_name = None
    /\ user_role = None
    /\ login_time = None
    /\ analysis_complete = FALSE
    /\ analysis_results = None
    /\ contract_name = EmptyStr
    /\ email_sent = FALSE
    /\ show_rewrites = Absent
    /\ \E env \in EnvAuthChoices : VALID_USERS = MergeEnvUser(env)
    /\ EmailNotifier_init(DeployedEnvs)
    /\ lastAction = "init"
    /\ analyzer_event = NotCalled
    /\ tmp_file = "none"
    /\ notify_return = None
    /\ last_send = NoSend
    /\ transport_calls = 0
    /\ gate_calls = 0
    /\ form_input = None
    /\ auth_result = None
    /\ drawn = None
    /\ view = "login"

AuthFrame ==
    UNCHANGED <<runVars, show_rewrites, envVars, analyzer_event, tmp_file, notify_return,
                last_send, transport_calls, gate_calls, drawn, view>>

CallAuthenticateUser(email, password, now) ==
    /\ lastAction' = "authenticate_user"
    /\ form_input' = Some([email |-> email, password |-> password])
    /\ authenticate_user(email, password, now)
    /\ auth_result' = Some(CredentialsMatch(email, password))
    /\ AuthFrame

CallCreateTempSession(email, now) ==
    /\ lastAction' = "create_temp_session"
    /\ form_input' = Some([email |-> email, password |-> ""])
    /\ create_temp_session(email, now)
    /\ auth_result' = Some(TRUE)
    /\ AuthFrame

CallLogoutUser ==
    /\ lastAction' = "logout_user"
    /\ form_input' = None
    /\ logout_user
    /\ auth_result' = None
    /\ AuthFrame

NextAuth ==
    \/ \E e \in LoginEmails, p \in Passwords, t \in Times : CallAuthenticateUser(e, p, t)
    \/ \E e \in TempEmails, t \in Times : CallCreateTempSession(e, t)
    \/ CallLogoutUser

SpecAuth == InitAuth /\ [][NextAuth]_vars

-----------------------------------------------------------------------------
(* generate_analysis_summary called repeatedly while the session and the   *)
(* run change between the calls (login, guest session, logout, a           *)
(* notification sent). drawn holds the last call: its arguments and the    *)
(* state the claim counts as inputs, what it returned, and the rest of     *)
(* the state at the call.                                                   *)

\* the guest's name as AUTH_NAME: a Full session whose display name and
\* e-mail are those of a guest session
GuestNamedEnv ==
    [user |-> Some(GuestEmail), password |-> Some("env123"),
     name |-> GuestPrefix \o GuestEmail \o GuestSuffix]

\* the record lists composed: two of them with the same metrics
ComposeInputs ==
    { <<[risk_level |-> "High"]>>,
      <<[risk_level |-> "Low"]>>,
      <<[risk_level |-> "Medium"], [risk_level |-> "Low"]>>,
      <<[risk_level |-> "Low"], [risk_level |-> "Medium"]>> }

InitCompose ==
    /\ \E env \in {GuestNamedEnv, [user |-> None, password |-> None, name |-> EnvName]} :
          VALID_USERS = MergeEnvUser(env)
    /\ EmailNotifier_init(DeployedEnvs)
    /\ \/ /\ authenticated = FALSE                          \* initialize_auth_session
          /\ temp_session = FALSE
          /\ user_email = None
          /\ user_name = None
          /\ user_role = None
          /\ login_time = None
       \/ \E e \in DOMAIN VALID_USERS, t \in Times :        \* authenticate_user
          /\ authenticated = TRUE
          /\ temp_session = FALSE
          /\ user_email = Some(e)
          /\ user_name = Some(VALID_USERS[e].name)
          /\ user_role = Some(VALID_USERS[e].role)
          /\ login_time = Some(t)
    /\ analysis_complete = FALSE
    /\ analysis_results = None
    /\ contract_name = FileA
    /\ email_sent = FALSE
    /\ show_rewrites = Absent
    /\ analyzer_event = [kind |-> "returned", value |-> Some(<<[risk_level |-> "Low"]>>)]
    /\ tmp_file = "none"
    /\ lastAction = "init"
    /\ notify_return = None
    /\ last_send = NoSend
    /\ transport_calls = 0
    /\ gate_calls = 0
    /\ form_input = None
    /\ auth_result = None
    /\ drawn = None
    /\ view = IF authenticated THEN "upload" ELSE "login"

ComposeSummary(results, contract_name_arg, today) ==
    /\ lastAction' = "generate_analysis_summary"
    /\ LET in   == [metrics   |-> [l \in RiskLevels |-> CountLevel(results, l)],
                    contract  |-> contract_name_arg,
                    identity  |-> <<user_email, user_name, user_role>>,
                    timestamp |-> today]
           rest == <<email_sent, login_time, gate_calls, transport_calls, last_send>>
       IN  drawn' = Some([in    |-> in,
                          out   |-> analysis_summary_html(results, contract_name_arg, today),
                          rest  |-> rest,
                          again |-> drawn # None /\ drawn[1].in = in /\ drawn[1].rest # rest])
    /\ UNCHANGED <<authVars, runVars, show_rewrites, envVars, analyzer_event, tmp_file,
                   notify_return, last_send, transport_calls, gate_calls,
                   form_input, auth_result, view>>

NextCompose ==
    \/ \E r \in ComposeInputs, f \in FileNames, t \in Times : ComposeSummary(r, f, t)
    \/ \E ok \in TransportOutcomes : GateNotify(ok)
    \/ \E t \in Times : CallCreateTempSession(GuestEmail, t)
    \/ CallLogoutUser

SpecCompose == InitCompose /\ [][NextCompose]_vars

-----------------------------------------------------------------------------
(* The aggregation functions called directly on a record list:             *)
(* create_dashboard and create_summary_insights of app.py and              *)
(* generate_analysis_summary of email_notifier.py. The list is held in     *)
(* analyzer_event, the values the call computes in drawn.                  *)

\* the risk_percent strings of the records: strings over the decimal digits,
\* the space, "%" and the letters a, b, c
PercentStrings == {Pct42, Pct7Spaced, PctAbc, EmptyStr, Pct4Pct2}

RECURSIVE ListsOver(_, _)
ListsOver(S, n) ==
    IF n = 0 THEN {<<>>}
    ELSE {Append(l, r) : l \in ListsOver(S, n - 1), r \in S}

\* the record lists aggregated: every mix of risk levels, every mix of
\* risk_percent strings, the empty list among them
AggInputs ==
    UNION {ListsOver({[risk_level |-> l, risk_percent |-> Pct42] : l \in RiskLevels}, n)
             : n \in 0..MaxLevelList}
    \cup
    UNION {ListsOver({[risk_level |-> "Low", risk_percent |-> p] : p \in PercentStrings}, n)
             : n \in 0..MaxPercentList}

InitAgg ==
    /\ VALID_USERS = BuiltinUsers
    /\ EmailNotifier_init({e \in DeployedEnvs : e.EMAIL_USER # None})
    /\ \/ /\ authenticated = TRUE                           \* create_temp_session
          /\ temp_session = TRUE
          /\ user_email = Some(GuestEmail)
          /\ user_name = Some(GuestPrefix \o GuestEmail \o GuestSuffix)
          /\ user_role = Some("Guest")
          /\ login_time = Some(0)
       \/ /\ authenticated = TRUE                           \* authenticate_user
          /\ temp_session = FALSE
          /\ user_email = Some(AdminEmail)
          /\ user_name = Some(VALID_USERS[AdminEmail].name)
          /\ user_role = Some(VALID_USERS[AdminEmail].role)
          /\ login_time = Some(0)
    /\ analysis_complete = FALSE
    /\ analysis_results = None
    /\ contract_name = FileA
    /\ email_sent = FALSE
    /\ show_rewrites = Absent
    /\ \E r \in AggInputs : analyzer_event = [kind |-> "returned", value |-> Some(r)]
    /\ tmp_file = "none"
    /\ lastAction = "init"
    /\ notify_return = None
    /\ last_send = NoSend
    /\ transport_calls = 0
    /\ gate_calls = 0
    /\ form_input = None
    /\ auth_result = None
    /\ drawn = None
    /\ view = "upload"

\* the aggregation functions write no session key and send nothing
AggFrame ==
    UNCHANGED <<authVars, runVars, show_rewrites, envVars, analyzer_event, tmp_file,
                notify_return, last_send, transport_calls, gate_calls,
                form_input, auth_result, view>>

AggDashboard ==
    /\ lastAction' = "create_dashboard"
    /\ drawn' = Some([dashboard |-> create_dashboard(analyzer_event.value[1])])
    /\ AggFrame

AggSummaryInsights ==
    /\ lastAction' = "create_summary_insights"
    /\ drawn' = Some([summary |-> create_summary_insights(analyzer_event.value[1],
                                                          email_sent)])
    /\ AggFrame

AggEmailSummary ==
    /\ lastAction' = "generate_analysis_summary"
    /\ drawn' = Some([email |-> generate_analysis_summary(analyzer_event.value[1])])
    /\ AggFrame

NextAgg ==
    \/ AggDashboard
    \/ AggSummaryInsights
    \/ AggEmailSummary

SpecAgg == InitAgg /\ [][NextAgg]_vars

-----------------------------------------------------------------------------
(* Properties *)

\* the analyzer of the last run returned a non-empty record list
AnalyzerGaveRecords ==
    analyzer_event.kind = "returned" /\ TruthyOpt(analyzer_event.value)

\* C1: the analysis notification reaches the transport (yag.send) only in a
\* Full session; in a Temporary or Unauthenticated session
\* send_analysis_notification returns False and makes no yag.send call.
C1_SendOnlyInFullSession ==
    /\ last_send.kind = "notification" => Kind = "Full"
    /\ (notify_return # None /\ Kind # "Full") =>
          (notify_return = Some(FALSE) /\ last_send = NoSend /\ transport_calls = 0)

\* C1 witness: a Temporary session submitted a contract, the analyzer returned
\* records, the gate was called with the transport enabled and refused.
C1_Witness ==
    /\ lastAction = "submit"
    /\ Kind = "Temporary"
    /\ enabled
    /\ AnalyzerGaveRecords
    /\ notify_return = Some(FALSE)
    /\ last_send = NoSend

\* C2: over any sequence of page actions the analysis notification is handed
\* to the transport at most once between two run resets, and only by the run
\* that handled the submit button; no redraw of a completed run sends.
C2_AtMostOneSendPerRun ==
    /\ transport_calls <= 1
    /\ last_send.kind = "notification" => lastAction = "submit"
    /\ (lastAction # "submit" /\ lastAction # "init") => notify_return = None

\* C2 witness: a completed run whose notification was sent is drawn again
\* after a logout and a new login.
C2_Witness ==
    /\ lastAction = "login"
    /\ view = "results"
    /\ transport_calls = 1
    /\ email_sent

\* C3 as claimed: two or more successive calls of the gate on the same run,
\* Full session, transport enabled, reach the transport at most once.
C3_GateIsIdempotent ==
    (Kind = "Full" /\ enabled /\ gate_calls >= 2) => transport_calls <= 1

\* C3 amended: the gate does not read email_sent; in a Full session with the
\* transport enabled every call of it on the run makes exactly one yag.send
\* call, whatever email_sent is.
C3_GateSendsOnEveryCall ==
    (Kind = "Full" /\ enabled) => transport_calls = gate_calls

\* C3 witness: the gate was called twice on the same run, the flag was set by
\* the first call, and the transport was reached twice.
C3_Witness ==
    /\ Kind = "Full"
    /\ enabled
    /\ gate_calls = 2
    /\ transport_calls = 2
    /\ email_sent

\* C4 as claimed: after a send attempt of an eligible session email_sent is
\* true, whether the transport returned or raised.
C4_FlagSetAfterAnyAttempt ==
    (lastAction = "submit" /\ last_send.kind = "notification") => email_sent

\* C4 amended: after a send attempt of an eligible session email_sent is true
\* exactly when the transport returned; a caught transport exception leaves
\* it false.
C4_FlagSetIffDelivered ==
    (lastAction = "submit" /\ last_send.kind = "notification") =>
        (email_sent <=> last_send.ok)

\* C4 witness: the transport raised during the notification of a Full,
\* enabled session and the flag is still false.
C4_Witness ==
    /\ lastAction = "submit"
    /\ Kind = "Full"
    /\ enabled
    /\ last_send.kind = "notification"
    /\ ~last_send.ok
    /\ ~email_sent

\* C5: whenever the analyzer returned a non-empty result the run ends
\* Complete with the analyzer's records, whether the notification was
\* delivered, failed in the transport or was blocked.
C5_RunCompletesWhateverTheTransport ==
    (lastAction = "submit" /\ AnalyzerGaveRecords) =>
        /\ analysis_complete
        /\ analysis_results = analyzer_event.value
        /\ view = "results"
        /\ notify_return \in {Some(TRUE), Some(FALSE)}

\* C5 witness: the transport raised and the run is Complete.
C5_Witness ==
    /\ lastAction = "submit"
    /\ last_send.kind = "notification"
    /\ ~last_send.ok
    /\ notify_return = Some(FALSE)
    /\ analysis_complete
    /\ analysis_results = analyzer_event.value

\* C6: analysis_complete goes from true to false, the records are cleared or
\* replaced, and email_sent goes from true to false only in the step of the
\* "Analyze Another Contract" button, which leaves the fresh Idle values.
C6_ResetOnlyByAnalyzeAnother ==
    [][ ( \/ (analysis_complete /\ ~analysis_complete')
          \/ (analysis_results # None /\ analysis_results' # analysis_results)
          \/ (email_sent /\ ~email_sent') )
        => ( /\ lastAction' = "analyze_another"
             /\ analysis_complete' = FALSE
             /\ analysis_results' = None
             /\ email_sent' = FALSE ) ]_vars

\* C6 witness: a completed, notified run is still there after a logout.
C6_Witness ==
    /\ lastAction = "logout"
    /\ analysis_complete
    /\ analysis_results # None
    /\ email_sent

\* C7: when the analyzer returns an empty result, returns None or raises, the
\* run is not complete, holds no records, email_sent is false, the gate and
\* the transport are not called and no dashboard is drawn.
C7_AnalyzerFailureLeavesRunIdle ==
    (lastAction = "submit" /\ ~AnalyzerGaveRecords) =>
        /\ ~analysis_complete
        /\ analysis_results = None
        /\ ~email_sent
        /\ notify_return = None
        /\ last_send = NoSend
        /\ transport_calls = 0
        /\ view = "upload"

\* C7 witness: the analyzer raised during a submit.
C7_Witness ==
    /\ lastAction = "submit"
    /\ analyzer_event.kind = "raised"
    /\ ~analysis_complete

\* C8: authenticated is false exactly when user_email, user_name and
\* user_role are all None, and temp_session implies authenticated.
C8_SessionInvariant ==
    /\ (authenticated = FALSE) <=>
          (user_email = None /\ user_name = None /\ user_role = None)
    /\ temp_session => authenticated

\* C8 witness: a session was opened and closed again.
C8_Witness ==
    /\ lastAction = "logout"
    /\ ~authenticated
    /\ user_email = None

\* C9: the session kind changes only Unauthenticated -> Full,
\* Unauthenticated -> Temporary, Full -> Unauthenticated and
\* Temporary -> Unauthenticated, and the identity of an authenticated session
\* does not change while it stays authenticated.
C9_SessionTransitions ==
    [][ /\ Kind' # Kind =>
              <<Kind, Kind'>> \in { <<"Unauthenticated", "Full">>,
                                     <<"Unauthenticated", "Temporary">>,
                                     <<"Full", "Unauthenticated">>,
                                     <<"Temporary", "Unauthenticated">> }
        /\ (authenticated /\ authenticated') =>
              UNCHANGED <<user_email, user_name, user_role>> ]_vars

\* C9 witness: a Temporary session took an action of the authenticated page
\* and is still Temporary.
C9_Witness ==
    /\ Kind = "Temporary"
    /\ lastAction = "submit"
    /\ view = "results"

\* C10: a login with an email that is a key of VALID_USERS and that entry's
\* password succeeds and leaves a Full session carrying the email and the
\* entry's name and role.
C10_ValidLoginYieldsFullSession ==
    (lastAction = "login"
        /\ form_input[1].email \in DOMAIN VALID_USERS
        /\ VALID_USERS[form_input[1].email].password = form_input[1].password) =>
        /\ auth_result = Some(TRUE)
        /\ authenticated = TRUE
        /\ temp_session = FALSE
        /\ user_email = Some(form_input[1].email)
        /\ user_name = Some(VALID_USERS[form_input[1].email].name)
        /\ user_role = Some(VALID_USERS[form_input[1].email].role)

\* C10 witness: the environment-provided entry logged in.
C10_Witness ==
    /\ lastAction = "login"
    /\ form_input = Some([email |-> EnvEmail, password |-> "env123"])
    /\ Kind = "Full"
    /\ user_role = Some("User")


\* C11: a login whose email is not a key of VALID_USERS (exact match), whose
\* password is not that entry's password, or whose email or password is empty
\* fails and leaves authenticated, temp_session, user_email, user_name,
\* user_role and login_time as they were.
C11_FailedLoginKeepsSession ==
    [][ ( /\ lastAction' = "login"
          /\ ~( /\ form_input'[1].email \in DOMAIN VALID_USERS
                /\ VALID_USERS[form_input'[1].email].password = form_input'[1].password
                /\ Len(form_input'[1].email) > 0
                /\ form_input'[1].password # "" ) )
        => ( /\ auth_result' = Some(FALSE)
             /\ UNCHANGED authVars ) ]_vars

\* C11 witness: the admin email in another letter case, with the admin
\* password, was refused.
C11_Witness ==
    /\ lastAction = "login"
    /\ form_input = Some([email |-> AdminEmailUC, password |-> "admin123"])
    /\ auth_result = Some(FALSE)
    /\ ~authenticated

\* C12: starting a temporary session with the string e succeeds exactly when
\* e is non-empty and contains "@"; then the session is Temporary with
\* user_email = e, user_name = "Guest (" + e + ")" and user_role = "Guest";
\* otherwise the session is unchanged.
C12_TempSessionIffAtSign ==
    [][ lastAction' = "temp_session" =>
          LET e == form_input'[1].email
          IN  IF Len(e) > 0 /\ (\E i \in 1..Len(e) : e[i] = "@")
              THEN /\ auth_result' = Some(TRUE)
                   /\ authenticated' = TRUE
                   /\ temp_session' = TRUE
                   /\ user_email' = Some(e)
                   /\ user_name' = Some(<<"G","u","e","s","t"," ","(">> \o e \o <<")">>)
                   /\ user_role' = Some("Guest")
              ELSE /\ auth_result' = Some(FALSE)
                   /\ UNCHANGED authVars ]_vars

\* C12 witness: the one-character string "@" opened a temporary session.
C12_Witness ==
    /\ lastAction = "temp_session"
    /\ form_input = Some([email |-> AtOnly, password |-> ""])
    /\ Kind = "Temporary"
    /\ user_name = Some(<<"G","u","e","s","t"," ","(","@",")">>)

\* C13: logout_user, called in an Unauthenticated, Temporary or Full session,
\* leaves authenticated and temp_session false and user_email, user_name,
\* user_role and login_time None.
C13_LogoutClearsSession ==
    [][ lastAction' \in {"logout_user", "logout"} =>
          /\ authenticated' = FALSE
          /\ temp_session' = FALSE
          /\ user_email' = None
          /\ user_name' = None
          /\ user_role' = None
          /\ login_time' = None ]_vars

\* C13 witness: logout_user has just been called and the session is cleared.
C13_Witness ==
    /\ lastAction = "logout_user"
    /\ Kind = "Unauthenticated"
    /\ login_time = None

\* steps that change the session kind
LogoutCloses   == Logout /\ ~authenticated'
LoginOpensFull ==
    \E e \in LoginEmails, p \in Passwords, t \in Times :
        Login(e, p, t) /\ authenticated' /\ ~temp_session'
TempOpens ==
    \E e \in TempEmails, t \in Times :
        StartTempSession(e, t) /\ authenticated' /\ temp_session'

\* C14: no state is terminal: in every reachable state a user action is
\* enabled; an authenticated session can log out to Unauthenticated, and an
\* Unauthenticated session can open both a Full and a Temporary session.
C14_NoTerminalState ==
    /\ authenticated => ENABLED LogoutCloses
    /\ ~authenticated => (ENABLED LoginOpensFull /\ ENABLED TempOpens)

\* C14 witness: a completed run has been left by a logout, and the login
\* page is up again.
C14_Witness ==
    /\ lastAction = "logout"
    /\ Kind = "Unauthenticated"
    /\ analysis_complete
    /\ view = "login"

\* C15: send_test_email reaches the transport exactly when the session is
\* Full and the notifier is enabled, whatever email_sent is, and leaves
\* email_sent, analysis_complete and analysis_results as they were.
C15_TestEmailGateAndFrame ==
    [][ lastAction' \in {"gate_test", "test_email"} =>
          /\ (last_send'.kind = "test") <=> (Kind = "Full" /\ enabled)
          /\ last_send'.kind \in {"test", "none"}
          /\ UNCHANGED <<email_sent, analysis_complete, analysis_results>> ]_vars

\* C15 witness: a test email went to the transport while email_sent was true.
C15_Witness ==
    /\ lastAction = "gate_test"
    /\ last_send.kind = "test"
    /\ email_sent

\* C16: for every record list the recommendation of create_summary_insights
\* is Reject when at least one record is High, otherwise ReviewRecommended
\* when the Medium records are strictly more than half of the list, otherwise
\* Acceptable; a High record gives Reject whatever the Medium proportion.
C16_RecommendationPrecedence ==
    lastAction = "create_summary_insights" =>
        LET records == analyzer_event.value[1]
            highs   == Len(SelectSeq(records, LAMBDA r : r.risk_level = "High"))
            mediums == Len(SelectSeq(records, LAMBDA r : r.risk_level = "Medium"))
            given   == drawn[1].summary.recommendation
        IN  /\ highs >= 1 => given = "Reject"
            /\ (highs = 0 /\ 2 * mediums > Len(records)) => given = "ReviewRecommended"
            /\ (highs = 0 /\ 2 * mediums <= Len(records)) => given = "Acceptable"

\* the list [Medium, Medium, Medium, Low, Low] is recommended for review
C16_Witness ==
    /\ lastAction = "create_summary_insights"
    /\ Len(analyzer_event.value[1]) = 5
    /\ \A i \in 1..5 :
          analyzer_event.value[1][i].risk_level = (IF i <= 3 THEN "Medium" ELSE "Low")
    /\ drawn[1].summary.recommendation = "ReviewRecommended"

\* C17: for every record list, create_dashboard gives total_clauses the list
\* length, compliant the number of Low records, high_risk_count the number
\* of High records and compliant_percentage compliant/total_clauses*100 when
\* total_clauses > 0 and 0 otherwise; the e-mail summary of a Full session
\* carries the same counts and rate.
C17_CountsAndComplianceRate ==
    LET records == analyzer_event.value[1]
        total   == Len(records)
        highs   == Len(SelectSeq(records, LAMBDA r : r.risk_level = "High"))
        lows    == Len(SelectSeq(records, LAMBDA r : r.risk_level = "Low"))
        rate    == IF total > 0 THEN Rat(lows * 100, total) ELSE Rat(0, 1)
    IN  /\ lastAction = "create_dashboard" =>
              LET d == drawn[1].dashboard
              IN  /\ ~d.raised
                  /\ d.total_clauses = total
                  /\ d.compliant = lows
                  /\ d.high_risk_count = highs
                  /\ RatEq(d.compliant_percentage, rate)
        /\ (lastAction = "generate_analysis_summary" /\ Kind = "Full") =>
              LET e == drawn[1].email
              IN  /\ e # None
                  /\ e[1].total_clauses = total
                  /\ e[1].low_risk = lows
                  /\ e[1].high_risk = highs
                  /\ RatEq(e[1].compliance_rate, rate)

\* C17 on the record lists with at least one record
C17_OnNonEmptyLists ==
    Len(analyzer_event.value[1]) > 0 => C17_CountsAndComplianceRate

\* C18: avg_risk of create_dashboard is the sum of the risk_percent values
\* that parse divided by their number; a record whose risk_percent does not
\* parse adds to neither and raises nothing; when no record parses avg_risk
\* is 0.
C18_AverageOverParsedValues ==
    lastAction = "create_dashboard" =>
        LET records == analyzer_event.value[1]
            parsed(p) == IF p = Pct42 THEN <<42>>
                         ELSE IF p = Pct7Spaced THEN <<7>>
                         ELSE IF p = Pct4Pct2 THEN <<42>>
                         ELSE <<>>
            values  == [i \in 1..Len(records) |-> parsed(records[i].risk_percent)]
            good    == {i \in 1..Len(records) : values[i] # <<>>}
            sevens  == Cardinality({i \in good : values[i] = <<7>>})
            sum     == 7 * sevens + 42 * (Cardinality(good) - sevens)
            d       == drawn[1].dashboard
        IN  /\ ~d.raised
            /\ IF good = {} THEN d.avg_risk.num = 0
               ELSE RatEq(d.avg_risk, Rat(sum, Cardinality(good)))

\* C18 on the record lists with at least one record
C18_OnNonEmptyLists ==
    Len(analyzer_event.value[1]) > 0 => C18_AverageOverParsedValues

\* C19: aggregating the empty record list completes without error and gives
\* total_clauses = 0, compliant_percentage = 0, avg_risk = 0 and the
\* recommendation Acceptable.
C19_EmptyListAggregates ==
    analyzer_event.value[1] = <<>> =>
        /\ lastAction = "create_dashboard" =>
              LET d == drawn[1].dashboard
              IN  /\ ~d.raised
                  /\ d.total_clauses = 0
                  /\ d.compliant_percentage.num = 0
                  /\ d.avg_risk.num = 0
        /\ lastAction = "create_summary_insights" =>
              drawn[1].summary.recommendation = "Acceptable"

\* C20: for every record list send_analysis_notification hands to yag.send,
\* the subject is the high-severity one when some record is High, otherwise
\* the review one when some record is Medium, otherwise the completion one.
C20_SubjectLine ==
    (lastAction = "gate_notify" /\ last_send.kind = "notification") =>
        LET records == analyzer_event.value[1]
            highs   == Len(SelectSeq(records, LAMBDA r : r.risk_level = "High"))
            mediums == Len(SelectSeq(records, LAMBDA r : r.risk_level = "Medium"))
        IN  last_send.subject = (IF highs > 0 THEN "HIGH RISK"
                                 ELSE IF mediums > 0 THEN "Review"
                                 ELSE "Complete")

\* [Medium, Low], a Medium minority without High, is sent with the review subject
C20_Witness ==
    /\ lastAction = "gate_notify"
    /\ last_send.kind = "notification"
    /\ analyzer_event.value[1] = <<[risk_level |-> "Medium"], [risk_level |-> "Low"]>>
    /\ last_send.subject = "Review"

\* C21: whatever NOTIFICATION_EMAILS holds (unset, empty, only commas and
\* whitespace, or a list of addresses), when it yields no address the
\* recipients are the three fallback addresses, so no yag.send call is made
\* with an empty recipient list.
C21_RecipientsNeverEmpty ==
    LET override    == environ.NOTIFICATION_EMAILS
        has_address == override # None /\
                       \E i \in 1..Len(override[1]) : override[1][i] \notin {",", " "}
    IN  /\ ~has_address => notification_emails = DefaultRecipients
        /\ last_send.kind # "none" => Len(last_send.to) > 0

\* C22: after EmailNotifier.__init__, enabled is false exactly when EMAIL_USER
\* or EMAIL_PASSWORD is unset or empty; with both set the notifier is enabled.
C22_EnabledIffCredentials ==
    LET present(v) == v # None /\ v[1] # ""
    IN  enabled <=> (present(environ.EMAIL_USER) /\ present(environ.EMAIL_PASSWORD))

\* C23: two calls of generate_analysis_summary with the same record metrics,
\* contract name, identity (e-mail, display name, role) and day return the same
\* html (or both none), whatever else changed in the session and the process
\* between them.
C23_CompositionIsDeterministic ==
    [][ (/\ lastAction' = "generate_analysis_summary"
         /\ drawn # None
         /\ drawn'[1].in = drawn[1].in)
        => drawn'[1].out = drawn[1].out ]_vars

\* a second call with the inputs of the first, after a notification was
\* sent, returned an html
C23_Witness ==
    /\ lastAction = "generate_analysis_summary"
    /\ drawn[1].again
    /\ drawn[1].out # None
    /\ email_sent

\* C22, amended: enabled is true exactly when EMAIL_USER and EMAIL_PASSWORD are
\* both set and non-empty and yagmail.SMTP(...) returned; a missing credential
\* always disables the notifier.
C22_EnabledIffCredentialsAndSmtp ==
    LET present(v) == v # None /\ v[1] # ""
    IN  /\ enabled <=> (/\ present(environ.EMAIL_USER)
                        /\ present(environ.EMAIL_PASSWORD)
                        /\ environ.smtp_init_ok)
        /\ ~(present(environ.EMAIL_USER) /\ present(environ.EMAIL_PASSWORD)) => ~enabled

\* both credentials are set, yagmail.SMTP(...) raised, and a call of the gate
\* finds the notifier disabled
C22_Witness ==
    /\ environ.EMAIL_USER = Some("bot@company.com")
    /\ environ.EMAIL_PASSWORD = Some("app-password")
    /\ ~environ.smtp_init_ok
    /\ ~enabled
    /\ lastAction = "gate_notify"
    /\ Kind = "Full"
    /\ last_send = NoSend

\* C24: while the notifier is disabled no step makes a yag.send call, and
\* send_analysis_notification and send_test_email called in the session at
\* hand return False without one; a submitted contract whose analysis returns
\* records still becomes a complete run, with email_sent still false.
C24_DisabledNotifierSendsNothing ==
    [][ ~enabled =>
          /\ last_send' = NoSend
          /\ transport_calls' = transport_calls
          /\ \A ok \in TransportOutcomes :
                /\ send_test_email(ok) = [ret |-> FALSE, send |-> NoSend]
                /\ \A r \in RecordLists :
                      send_analysis_notification(r, ok) = [ret |-> FALSE, send |-> NoSend]
          /\ (/\ lastAction' = "submit"
              /\ analyzer_event'.kind = "returned"
              /\ TruthyOpt(analyzer_event'.value))
             => /\ analysis_complete'
                /\ analysis_results' = analyzer_event'.value
                /\ ~email_sent' ]_vars

\* a Full session's submit with the notifier disabled ended in a complete run
C24_Witness ==
    /\ ~enabled
    /\ Kind = "Full"
    /\ lastAction = "submit"
    /\ notify_return = Some(FALSE)
    /\ analysis_complete
    /\ TruthyOpt(analysis_results)
    /\ ~email_sent

\* C25: in every reachable state email_sent implies analysis_complete and a
\* non-empty analysis_results: the flag is never set for an idle or failed run.
C25_SentOnlyForCompleteRun ==
    email_sent => (analysis_complete /\ TruthyOpt(analysis_results))

\* a submit whose notification was delivered
C25_Witness ==
    /\ lastAction = "submit"
    /\ notify_return = Some(TRUE)
    /\ email_sent
    /\ analysis_complete

\* C26: logout changes only the six authentication keys; analysis_complete,
\* analysis_results, contract_name, email_sent and show_rewrites keep their
\* values, so a completed run is still there when the next identity
\* authenticates and is drawn for it.
C26_LogoutKeepsTheRun ==
    [][ /\ lastAction' = "logout" =>
              UNCHANGED <<analysis_complete, analysis_results, contract_name,
                          email_sent, show_rewrites>>
        /\ (/\ lastAction' \in {"login", "temp_session"}
            /\ authenticated'
            /\ analysis_complete
            /\ TruthyOpt(analysis_results))
           => /\ UNCHANGED <<analysis_complete, analysis_results, contract_name, email_sent>>
              /\ view' = "results"
              /\ drawn' # None ]_vars

\* a guest session drawn the results of a run whose notification was sent:
\* the run of a Full session that logged out
C26_Witness ==
    /\ lastAction = "temp_session"
    /\ Kind = "Temporary"
    /\ view = "results"
    /\ analysis_complete
    /\ email_sent
    /\ drawn[1].summary.email_sent_indicator

\* C27: in every reachable state with a Temporary session email_sent is
\* false, so a guest is never shown the "Email Notifications Sent" indicator.
C27_TemporaryNeverSeesSent ==
    Kind = "Temporary" =>
        /\ ~email_sent
        /\ drawn # None => ~drawn[1].summary.email_sent_indicator

\* C28: analyze_contract_file is called, and a dashboard and summary are
\* drawn, only with an authenticated session, and the analyzer only while
\* analysis_complete is false; a script run that starts unauthenticated
\* calls neither collaborator and leaves the run as it is.
C28_OnlyAuthenticatedAnalyses ==
    [][ /\ analyzer_event' # NotCalled =>
              (authenticated /\ authenticated' /\ ~analysis_complete)
        /\ (drawn' # None \/ view' = "results") => authenticated'
        /\ ~authenticated =>
              /\ analyzer_event' = NotCalled
              /\ last_send' = NoSend
              /\ notify_return' = None
              /\ UNCHANGED <<analysis_complete, analysis_results, contract_name,
                             email_sent, transport_calls, gate_calls>> ]_vars

\* a guest's submit called the analyzer and the results were drawn
C28_Witness ==
    /\ lastAction = "submit"
    /\ Kind = "Temporary"
    /\ analyzer_event.kind = "returned"
    /\ view = "results"
    /\ ~email_sent

\* C29: for every non-empty record list the recommendation drawn on the
\* summary page, the status banner of the e-mail body and the e-mail subject
\* denote the same severity class (3 high, 2 middle, 1 low).
C29_ThreeVerdictsAgree ==
    (lastAction = "submit" /\ last_send.kind = "notification" /\ drawn # None) =>
        LET given  == drawn[1].summary.recommendation
            rec    == IF given = "Reject" THEN 3
                      ELSE IF given = "ReviewRecommended" THEN 2 ELSE 1
            banner == IF last_send.status = "HIGH RISK" THEN 3
                      ELSE IF last_send.status = "MODERATE" THEN 2 ELSE 1
            subj   == IF last_send.subject = "HIGH RISK" THEN 3
                      ELSE IF last_send.subject = "Review" THEN 2 ELSE 1
        IN  rec = banner /\ banner = subj

\* C29, amended: the recommendation and the banner always denote the same
\* class; the subject denotes that class too, except for a list without High
\* in which the Medium records are at least one and at most half: there the
\* subject is the review one while recommendation and banner are the low ones.
C29_VerdictsAgreeButMediumMinority ==
    (lastAction = "submit" /\ last_send.kind = "notification" /\ drawn # None) =>
        LET records == analysis_results[1]
            highs   == Len(SelectSeq(records, LAMBDA r : r.risk_level = "High"))
            mediums == Len(SelectSeq(records, LAMBDA r : r.risk_level = "Medium"))
            given   == drawn[1].summary.recommendation
            rec     == IF given = "Reject" THEN 3
                       ELSE IF given = "ReviewRecommended" THEN 2 ELSE 1
            banner  == IF last_send.status = "HIGH RISK" THEN 3
                       ELSE IF last_send.status = "MODERATE" THEN 2 ELSE 1
            subj    == IF last_send.subject = "HIGH RISK" THEN 3
                       ELSE IF last_send.subject = "Review" THEN 2 ELSE 1
        IN  /\ rec = banner
            /\ IF highs = 0 /\ mediums >= 1 /\ 2 * mediums <= Len(records)
               THEN subj = 2 /\ banner = 1
               ELSE subj = banner

\* [Medium, Low] was analysed and sent: review subject, LOW RISK banner,
\* acceptable recommendation
C29_Witness ==
    /\ lastAction = "submit"
    /\ last_send.kind = "notification"
    /\ analysis_results = Some(<<[risk_level |-> "Medium"], [risk_level |-> "Low"]>>)
    /\ last_send.subject = "Review"
    /\ last_send.status = "LOW RISK"
    /\ drawn[1].summary.recommendation = "Acceptable"

\* C30: whether the analyzer returns records, returns an empty result or
\* raises, the temporary copy of the uploaded file is deleted by the end of
\* the submit.
C30_TempFileDeleted ==
    lastAction = "submit" => tmp_file = "deleted"

\* C30 on the two paths on which the analyzer returns
C30_DeletedWhenAnalyzerReturns ==
    (lastAction = "submit" /\ analyzer_event.kind = "returned") => tmp_file = "deleted"

====
